---- MODULE Spec2Model ----
(***************************************************************************)
(* PlayerSocketDataContainer (backend/src/sockets/player.socket.container) *)
(* as a state machine: one container wrapping one WebSocket, its message   *)
(* gate, response counter, activity timestamp, kick timer and player, with *)
(* the event loop interleaving message arrivals, dispatcher completions,   *)
(* timer ticks, close() calls and transport state changes.                 *)
(*                                                                         *)
(* Time is counted in units of the kick interval (one minute).             *)
(***************************************************************************)
EXTENDS Integers, Sequences, FiniteSets, TLC

\* ---------------------------------------------------------------- bounds
MaxMsgs == 2        \* messages delivered to processMessage in one run
MaxTime == 3        \* last clock value explored
MaxCloses == 2      \* close() calls made by callers other than the timer
Timeout == 2        \* WS_ACTIVITY_TIMEOUT_MS (configuration), in time units

\* ------------------------------------------------------ program constants
CONNECTING == 0     \* WebSocket.CONNECTING
OPEN == 1           \* WebSocket.OPEN
CLOSING == 2        \* WebSocket.CLOSING
CLOSED == 3         \* WebSocket.CLOSED
NormalClosure == 1000
TickInterval == 1   \* 60 * 1000 ms
Undefined == 0 - 1  \* a timestamp field never assigned (lastRecvTs!: number)

NoPlayer == "undefined"
Players == {"p1", "p2"}
Envs == {"dev", "production"}

\* Raw frames handed to processMessage, by what JSON.parse and the
\* validator make of them.
Data == {"garbage", "badSchema", "ping", "join"}

\* The kind ("type" field) of a frame that parses and validates.
Kinds == {"ping", "join"}

\* What validators.validatePayload.errors holds after a failed validation:
\* null, or a list of violations.
ValidatorErrors ==
    {[null |-> TRUE, list |-> <<>>],
     [null |-> FALSE, list |-> <<>>],
     [null |-> FALSE, list |-> <<"violation">>]}

\* The errors of a validation that passed.
NoErrors == [null |-> TRUE, list |-> <<>>]

\* What the validations run for other sessions leave in the same errors.
OtherErrors == {NoErrors, [null |-> FALSE, list |-> <<"violation of another session">>]}

\* The message of an Error a handler fails with.
ErrMessages == {"db down", "out of range"}

\* Where a send may fail: nowhere, in the serialiser, in ws.send.
Faults == {"none", "serialise", "write"}

VARIABLES
    c,            \* the container: locked, sequence, lastRecvTs, kickTimer, player, ws
    nodeEnv,      \* NODE_ENV
    now,          \* Date.now()
    arrivals,     \* calls of processMessage so far
    pending,      \* the executions of processMessage suspended at the await
    written,      \* the sequence numbers of the envelopes handed to ws.send
    lastCall,     \* the latest send call, what led to it and what became of it
    sendCalls,    \* calls of send by processMessage
    validatorErrors, \* validators.validatePayload.errors, shared by all sessions
    closeCalls,   \* calls of close()
    wsCloseCalls, \* calls of ws.close, with their codes
    kicks,        \* timer ticks that chose to kick
    escaped       \* an exception left send or processMessage

vars ==
    <<c, nodeEnv, now, arrivals, pending, written, lastCall, sendCalls,
      validatorErrors, closeCalls, wsCloseCalls, kicks, escaped>>

\* ----------------------------------------------------------- the fields
InitContainer ==
    [locked |-> FALSE, sequence |-> 0, lastRecvTs |-> Undefined,
     kickTimer |-> TRUE, player |-> NoPlayer, ws |-> OPEN]

\* Variant: the gate is never seen as set.
isLockedNever(s) == FALSE

isLocked(s) == s.locked

\* Variant: lock() leaves the flag as it is.
lockNoop(s) == s

lock(s) == [s EXCEPT !.locked = TRUE]

\* Variant: unlock leaves the flag as it is.
unlockNoop(s) == s

unlock(s) == [s EXCEPT !.locked = FALSE]

\* Variant: only the first accepted message is timestamped.
stampFirstOnly(s, t) ==
    IF s.lastRecvTs = Undefined THEN [s EXCEPT !.lastRecvTs = t] ELSE s

\* this.lastRecvTs = Date.now()
stamp(s, t) == [s EXCEPT !.lastRecvTs = t]

setPlayer(s, player) == [s EXCEPT !.player = player]

\* Variant: return this.sequence++, the value before the increment.
getSequenceNumberPost(s) ==
    [c |-> [s EXCEPT !.sequence = s.sequence + 1], value |-> s.sequence]

\* return ++this.sequence: the container with the counter advanced, and
\* the value returned.
getSequenceNumber(s) ==
    [c |-> [s EXCEPT !.sequence = s.sequence + 1], value |-> s.sequence + 1]

\* JavaScript's `key in array`: true when key is an index of the array.
\* Arrays are indexed from 0.
InArray(key, array) == key \in 0..(Len(array) - 1)

\* ws.close(code) on the transport: a socket that is open or connecting
\* starts closing.
wsClose(readyState) ==
    IF readyState \in {OPEN, CONNECTING} THEN CLOSING ELSE readyState

\* ----------------------------------------------------------------- close
\* Variant: ws.close is called whatever the readyState.
closeUnguarded(s) ==
    [c |-> [s EXCEPT !.ws = wsClose(s.ws), !.kickTimer = FALSE],
     codes |-> <<NormalClosure>>]

\* Variant: clearInterval sits inside the if.
closeTimerInsideIf(s) ==
    LET closes == InArray(s.ws, <<OPEN, CONNECTING>>)
    IN  [c |-> [s EXCEPT !.ws = IF closes THEN wsClose(s.ws) ELSE s.ws,
                         !.kickTimer = IF closes THEN FALSE ELSE s.kickTimer],
         codes |-> IF closes THEN <<NormalClosure>> ELSE <<>>]

\* The result of close() on container s: the container, and the codes
\* ws.close was called with.
close(s) ==
    LET closes == InArray(s.ws, <<OPEN, CONNECTING>>)
    IN  [c |-> [s EXCEPT !.ws = IF closes THEN wsClose(s.ws) ELSE s.ws,
                         !.kickTimer = FALSE],
         codes |-> IF closes THEN <<NormalClosure>> ELSE <<>>]

\* Variant: send without the test of readyState; ws.send throws on a
\* socket that is not open.
sendTryNoStateTest(s, response, fault) ==
    LET n == getSequenceNumber(s)
    IN  IF s.ws = OPEN /\ fault = "none"
        THEN [c |-> n.c, threw |-> FALSE,
              out |-> <<[type |-> response.type, data |-> response.data,
                         sequence |-> n.value]>>]
        ELSE [c |-> n.c, threw |-> TRUE, out |-> <<>>]

\* ------------------------------------------------------------------ send
\* The try block of send: the envelope takes the next sequence number
\* while it is built, before the serialiser and ws.send run.
sendTry(s, response, fault) ==
    IF s.ws = OPEN
    THEN LET n == getSequenceNumber(s)
         IN  IF fault = "none"
             THEN [c |-> n.c, threw |-> FALSE,
                   out |-> <<[type |-> response.type, data |-> response.data,
                              sequence |-> n.value]>>]
             ELSE [c |-> n.c, threw |-> TRUE, out |-> <<>>]
    ELSE [c |-> s, threw |-> FALSE, out |-> <<>>]

\* Variant: send without its catch.
sendNoCatch(s, response, fault) == sendTry(s, response, fault)

\* send: the try block with its catch, which logs and swallows.
send(s, response, fault) ==
    LET r == sendTry(s, response, fault)
    IN  [r EXCEPT !.threw = FALSE]

\* --------------------------------------------------------- the responses
Text(info) == [isList |-> FALSE, text |-> info, list |-> <<>>]

List(errors) == [isList |-> TRUE, text |-> "", list |-> errors]

PleaseWait ==
    [type |-> "PleaseWait",
     data |-> Text("Already processing a message on your behalf. Slow down there kiddo!")]

\* What a handler resolves with.
HandlerResponse == [type |-> "Response", data |-> Text("ok")]

\* A thrown value: its class, and the fields the catch block reads.
Thrown(cls, message, errors, type) ==
    [cls |-> cls, message |-> message, errors |-> errors, type |-> type]

\* Variant: the ServerError branch sends the error's message whatever
\* NODE_ENV is.
classifyEchoes(e, env) ==
    IF e.cls = "SyntaxError"
    THEN [type |-> "BadPayload",
          data |-> Text("Your JSON payload was a bit iffy. K thx bye.")]
    ELSE IF e.cls = "ValidationError"
    THEN [type |-> "BadPayload", data |-> List(e.errors)]
    ELSE IF e.cls = "HandlerNotFoundError"
    THEN [type |-> "BadMessageType", data |-> Text(e.type)]
    ELSE [type |-> "ServerError",
          data |-> Text(IF e.cls # "nonError" THEN e.message ELSE "unknown error")]

\* The catch block's chain of instanceof tests, and the response each
\* branch sends.
classify(e, env) ==
    IF e.cls = "SyntaxError"
    THEN [type |-> "BadPayload",
          data |-> Text("Your JSON payload was a bit iffy. K thx bye.")]
    ELSE IF e.cls = "ValidationError"
    THEN [type |-> "BadPayload", data |-> List(e.errors)]
    ELSE IF e.cls = "HandlerNotFoundError"
    THEN [type |-> "BadMessageType", data |-> Text(e.type)]
    ELSE [type |-> "ServerError",
          data |-> Text(IF env = "dev"
                        THEN IF e.cls # "nonError" THEN e.message
                             ELSE "unknown error"
                        ELSE "there was an error processing your payload")]

\* Variant: a rejected payload throws ValidationError whatever the
\* validator's errors hold.
decodeNoNullTest(data, verrs) ==
    IF data = "garbage"
    THEN [ok |-> FALSE, at |-> "parse",
          e |-> Thrown("SyntaxError", "Unexpected token", <<>>, "")]
    ELSE IF data = "badSchema"
    THEN [ok |-> FALSE, at |-> IF verrs.null THEN "validateNoErrors" ELSE "validate",
          e |-> Thrown("ValidationError", "validation failed", verrs.list, "")]
    ELSE [ok |-> TRUE, at |-> "", e |-> Thrown("nonError", "", <<>>, "")]

\* JSON.parse and validatePayload on a raw frame, with the errors the
\* validator leaves behind when it rejects: the value thrown before the
\* dispatcher is reached, if any.
decode(data, verrs) ==
    IF data = "garbage"
    THEN [ok |-> FALSE, at |-> "parse",
          e |-> Thrown("SyntaxError", "Unexpected token", <<>>, "")]
    ELSE IF data = "badSchema"
    THEN IF ~verrs.null
         THEN [ok |-> FALSE, at |-> "validate",
               e |-> Thrown("ValidationError", "validation failed", verrs.list, "")]
         ELSE [ok |-> FALSE, at |-> "validateNoErrors",
               e |-> Thrown("Error",
                            "Ajv validation failed, but no errors are available to display.",
                            <<>>, "")]
    ELSE [ok |-> TRUE, at |-> "", e |-> Thrown("nonError", "", <<>>, "")]

\* The ways the promise of processSocketMessage can settle for a message
\* of the given kind.
Settlements(kind) ==
    {[ok |-> TRUE, e |-> Thrown("nonError", "", <<>>, "")]}
    \cup {[ok |-> FALSE, e |-> Thrown("HandlerNotFoundError", "not found", <<>>, kind)]}
    \cup {[ok |-> FALSE, e |-> Thrown("Error", m, <<>>, "")] : m \in ErrMessages}
    \cup {[ok |-> FALSE, e |-> Thrown("SyntaxError", "Unexpected token", <<>>, "")]}
    \cup {[ok |-> FALSE, e |-> Thrown("ValidationError", "validation failed", <<"violation">>, "")]}
    \cup {[ok |-> FALSE, e |-> Thrown("nonError", "", <<>>, "")]}

\* What became of a send call.
Outcome(before, r) ==
    IF r.threw THEN "threw"
    ELSE IF r.out # <<>> THEN "written"
    ELSE IF before.ws # OPEN THEN "notOpen"
    ELSE "swallowed"

\* The record of a send call: the response, what became of it, the
\* message answered and what led to the call: the gate, a failure at
\* parse or validation, or the settling of the dispatch with a response
\* or with a value of some class.
Call(before, response, r, m, cause) ==
    [type |-> response.type, data |-> response.data,
     outcome |-> Outcome(before, r), msg |-> m, cause |-> cause]

\* Variant: the gate is lifted on the success path only.
catchNoFinally(s, e, env, fault, m, cause) ==
    LET resp == classify(e, env)
        r == send(s, resp, fault)
    IN  [c |-> r.c, out |-> r.out, threw |-> r.threw, calls |-> 1,
         call |-> Call(s, resp, r, m, cause)]

\* Variant: the last branch of the catch block rethrows instead of
\* sending ServerError.
catchRethrows(s, e, env, fault, m, cause) ==
    LET resp == classify(e, env)
        r == send(s, resp, fault)
    IN  IF e.cls \in {"SyntaxError", "ValidationError", "HandlerNotFoundError"}
        THEN [c |-> unlock(r.c), out |-> r.out, threw |-> r.threw, calls |-> 1,
              call |-> Call(s, resp, r, m, cause)]
        ELSE [c |-> unlock(s), out |-> <<>>, threw |-> TRUE, calls |-> 0,
              call |-> lastCall]

\* The catch block and the finally block: one response for the value
\* caught, then the gate is lifted. A throw inside the catch block leaves
\* processMessage once the finally block has run.
catchFinally(s, e, env, fault, m, cause) ==
    LET resp == classify(e, env)
        r == send(s, resp, fault)
    IN  [c |-> unlock(r.c), out |-> r.out, threw |-> r.threw, calls |-> 1,
         call |-> Call(s, resp, r, m, cause)]

\* processMessage from the point where the awaited promise has settled:
\* send the result, or classify the failure; a throw of the send in the
\* try block is caught like any other.
resume(s, settled, env, fault, fault2, m) ==
    IF settled.ok
    THEN LET r == send(s, HandlerResponse, fault)
         IN  IF r.threw
             THEN LET k == catchFinally(r.c, Thrown("Error", "send failed", <<>>, ""),
                                        env, fault2, m, "send")
                  IN  [k EXCEPT !.out = r.out \o k.out, !.calls = 1 + k.calls]
             ELSE [c |-> unlock(r.c), out |-> r.out, threw |-> FALSE, calls |-> 1,
                   call |-> Call(s, HandlerResponse, r, m, "response")]
    ELSE catchFinally(s, settled.e, env, fault, m, settled.e.cls)

\* The faults a send on container s can meet: the serialiser and ws.send
\* run only on an open socket.
FaultsOf(s) == IF s.ws = OPEN THEN Faults ELSE {"none"}

\* What the validator can leave in its errors for a frame: something
\* only when it rejects the frame.
ErrorsOf(data) ==
    IF data = "badSchema" THEN ValidatorErrors
    ELSE {NoErrors}

\* Variant: the errors are read after a suspension point, when they hold
\* what the slot held before this call's own validation.
errorsReadLater(left) == validatorErrors

\* The read of validatePayload.errors that follows the call of
\* validatePayload with nothing in between: what that call left.
errorsRead(left) == left

\* The faults the send of the catch block can meet, when the send of the
\* try block threw and so a second send is made.
SecondFaults(s, settled, fault) ==
    IF settled.ok /\ send(s, HandlerResponse, fault).threw THEN Faults
    ELSE {"none"}

\* Variant: a timestamp never set does not count as inactivity.
ShouldKickSetOnly(t, lastRecvTs) ==
    lastRecvTs # Undefined /\ t - lastRecvTs > Timeout

\* Variant: the boundary itself counts as inactivity.
ShouldKickAtBoundary(t, lastRecvTs) ==
    lastRecvTs = Undefined \/ t - lastRecvTs >= Timeout

\* The timer callback's test.
ShouldKick(t, lastRecvTs) ==
    lastRecvTs = Undefined \/ t - lastRecvTs > Timeout

\* The log of what was written keeps each envelope's sequence number;
\* lastCall holds the type and payload of the latest.
Sequences(out) == [i \in DOMAIN out |-> out[i].sequence]

\* ------------------------------------------------------------------ Init
NoCall ==
    [type |-> "none", data |-> Text(""), outcome |-> "none", msg |-> 0,
     cause |-> "none"]

Init ==
    /\ c \in {[InitContainer EXCEPT !.ws = r] : r \in {CONNECTING, OPEN}}
    /\ nodeEnv \in Envs
    /\ now = 0
    /\ arrivals = 0
    /\ pending = {}
    /\ written = <<>>
    /\ lastCall = NoCall
    /\ sendCalls = 0
    /\ validatorErrors = NoErrors
    /\ closeCalls = 0
    /\ wsCloseCalls = <<>>
    /\ kicks = 0
    /\ escaped = FALSE

\* --------------------------------------------------------------- actions
\* processMessage(data) up to its first suspension point: the rejection
\* while locked; or lock, timestamp, parse, validate and either the whole
\* failure path or the call of the dispatcher, whose promise is awaited.
ProcessMessage(data, verrs, fault) ==
    /\ arrivals < MaxMsgs
    /\ c.ws \in {OPEN, CLOSING}
    /\ arrivals' = arrivals + 1
    /\ IF isLocked(c)
       THEN LET r == send(c, PleaseWait, fault) IN
            /\ c' = r.c
            /\ written' = written \o Sequences(r.out)
            /\ lastCall' = Call(c, PleaseWait, r, arrivals', "gate")
            /\ sendCalls' = sendCalls + 1
            /\ escaped' = (escaped \/ r.threw)
            /\ UNCHANGED <<pending, validatorErrors>>
       ELSE LET s == stamp(lock(c), now)
                d == decode(data, errorsRead(verrs))
            IN  /\ validatorErrors' = IF data = "garbage" THEN validatorErrors ELSE verrs
                /\ IF d.ok
                   THEN /\ c' = s
                        /\ pending' = pending \cup {[msg |-> arrivals', kind |-> data]}
                        /\ UNCHANGED <<written, lastCall, sendCalls, escaped>>
                   ELSE LET k == catchFinally(s, d.e, nodeEnv, fault, arrivals', d.at) IN
                        /\ c' = k.c
                        /\ written' = written \o Sequences(k.out)
                        /\ lastCall' = k.call
                        /\ sendCalls' = sendCalls + k.calls
                        /\ escaped' = (escaped \/ k.threw)
                        /\ UNCHANGED pending
    /\ UNCHANGED <<nodeEnv, now, closeCalls, wsCloseCalls, kicks>>

\* The promise awaited by execution p settles and processMessage runs to
\* its end.
Settle(p, settled, fault, fault2) ==
    /\ p \in pending
    /\ LET k == resume(c, settled, nodeEnv, fault, fault2, p.msg) IN
       /\ c' = k.c
       /\ written' = written \o Sequences(k.out)
       /\ lastCall' = k.call
       /\ sendCalls' = sendCalls + k.calls
       /\ escaped' = (escaped \/ k.threw)
    /\ pending' = pending \ {p}
    /\ UNCHANGED <<nodeEnv, now, arrivals, validatorErrors, closeCalls,
                   wsCloseCalls, kicks>>

\* The interval elapses and the setInterval callback runs.
Tick ==
    /\ c.kickTimer
    /\ now + TickInterval <= MaxTime
    /\ now' = now + TickInterval
    /\ IF ShouldKick(now', c.lastRecvTs)
       THEN LET r == close(c) IN
            /\ c' = r.c
            /\ wsCloseCalls' = wsCloseCalls \o r.codes
            /\ closeCalls' = closeCalls + 1
            /\ kicks' = kicks + 1
       ELSE UNCHANGED <<c, wsCloseCalls, closeCalls, kicks>>
    /\ UNCHANGED <<nodeEnv, arrivals, pending, written, lastCall, sendCalls,
                   validatorErrors, escaped>>

\* close() called by the owner of the container.
Close ==
    /\ closeCalls < MaxCloses
    /\ LET r == close(c) IN
       /\ c' = r.c
       /\ wsCloseCalls' = wsCloseCalls \o r.codes
    /\ closeCalls' = closeCalls + 1
    /\ UNCHANGED <<nodeEnv, now, arrivals, pending, written, lastCall, sendCalls,
                   validatorErrors, kicks, escaped>>

\* setPlayer(player) called by a handler, which is handed the container
\* by processSocketMessage(this, json) and runs while its message is
\* being processed.
SetPlayer(player) ==
    /\ pending # {}
    /\ c.player # player
    /\ c' = setPlayer(c, player)
    /\ UNCHANGED <<nodeEnv, now, arrivals, pending, written, lastCall, sendCalls,
                   validatorErrors, closeCalls, wsCloseCalls, kicks, escaped>>

\* The transport changes state by itself: the handshake completes or
\* fails, the peer closes, the closing handshake ends.
WsNext(readyState) ==
    IF readyState = CONNECTING THEN {OPEN, CLOSED}
    ELSE IF readyState = OPEN THEN {CLOSING}
    ELSE IF readyState = CLOSING THEN {CLOSED}
    ELSE {}

Transport ==
    /\ \E r \in WsNext(c.ws) : c' = [c EXCEPT !.ws = r]
    /\ UNCHANGED <<nodeEnv, now, arrivals, pending, written, lastCall, sendCalls,
                   validatorErrors, closeCalls, wsCloseCalls, kicks, escaped>>

\* Time passes with the timer cleared.
Advance ==
    /\ ~c.kickTimer
    /\ now + TickInterval <= MaxTime
    /\ now' = now + TickInterval
    /\ UNCHANGED <<c, nodeEnv, arrivals, pending, written, lastCall, sendCalls,
                   validatorErrors, closeCalls, wsCloseCalls, kicks, escaped>>

\* The validator runs for a message of another session and leaves its
\* errors in the shared slot.
OtherSession(verrs) ==
    /\ verrs # validatorErrors
    /\ validatorErrors' = verrs
    /\ UNCHANGED <<c, nodeEnv, now, arrivals, pending, written, lastCall, sendCalls,
                   closeCalls, wsCloseCalls, kicks, escaped>>

Next ==
    \/ \E data \in Data :
          \E verrs \in ErrorsOf(data), fault \in FaultsOf(c) :
             ProcessMessage(data, verrs, fault)
    \/ \E p \in pending, fault \in FaultsOf(c) :
          \E settled \in Settlements(p.kind) :
             \E fault2 \in SecondFaults(c, settled, fault) :
                Settle(p, settled, fault, fault2)
    \/ Tick
    \/ Close
    \/ \E player \in Players : SetPlayer(player)
    \/ Transport
    \/ Advance

Spec == Init /\ [][Next]_vars

\* ------------------------------------------------- the steps, recognised
\* processMessage is called while the gate is set / while it is not.
RejectStep == arrivals' = arrivals + 1 /\ c.locked

AcceptStep == arrivals' = arrivals + 1 /\ ~c.locked

\* An execution that passed the gate ends: after its await, or at once
\* when parsing or validation fails.
CompleteStep ==
    \/ pending' # pending /\ pending' \subseteq pending
    \/ AcceptStep /\ pending' = pending

\* The timer callback runs (the clock moves while the timer is armed).
TickStep == c.kickTimer /\ now' # now

\* close() is called, by the timer callback or by the owner.
CloseStep == closeCalls' = closeCalls + 1

LastWritten == written[Len(written)]

\* ----------------------------------------------------------------- claims

\* C1: at most one execution of processMessage is past the gate check at
\* any time; the gate is set for as long as that execution is in flight,
\* and while the gate is set no further execution begins.
C1_SingleFlight ==
    /\ [](Cardinality(pending) <= 1 /\ (pending # {} => c.locked))
    /\ [][c.locked => pending' \subseteq pending]_vars

\* C1 witness: a message is in flight with the gate set, a second one has
\* been turned away, and close() has been called meanwhile.
C1_Witness ==
    /\ Cardinality(pending) = 1
    /\ c.locked
    /\ arrivals = 2
    /\ lastCall.type = "PleaseWait"
    /\ closeCalls > 0

\* C2: a message that arrives while the gate is set is answered with a
\* PleaseWait send and is dropped: the dispatcher is not called for it in
\* that step, and an execution only ever starts for the message arriving
\* in the same step with the gate clear, so it is never taken up later.
C2_GatedRejected ==
    /\ [][RejectStep =>
            /\ lastCall'.type = "PleaseWait"
            /\ lastCall'.msg = arrivals'
            /\ pending' = pending]_vars
    /\ [][\A p \in pending' \ pending : AcceptStep /\ p.msg = arrivals']_vars

\* C2 witness: the second message was turned away with PleaseWait, written
\* to the open socket, while the first is still awaited.
C2_Witness ==
    /\ arrivals = 2
    /\ lastCall.type = "PleaseWait"
    /\ lastCall.msg = 2
    /\ lastCall.outcome = "written"
    /\ pending = {[msg |-> 1, kind |-> "ping"]}

\* C3: whenever an execution that passed the gate ends, whatever its exit
\* path, the gate is clear in the state it leaves.
C3_GateReleased == [][CompleteStep => ~c'.locked]_vars

\* C3 witness: an execution has ended on the internal-failure path and the
\* gate is clear.
C3_Witness ==
    /\ lastCall.type = "ServerError"
    /\ lastCall.msg = 1
    /\ arrivals = 1
    /\ pending = {}
    /\ ~c.locked
    /\ c.lastRecvTs # Undefined

\* C4: the n-th envelope written to the transport carries sequence n, and
\* the counter equals the number of envelopes written.
C4_SequenceCountsWritten ==
    /\ \A i \in DOMAIN written : written[i] = i
    /\ c.sequence = Len(written)

\* The first message of the session is awaited.
FirstInFlight == \E p \in pending : p.msg = 1

\* C5, as claimed: when the second message arrives while the first is
\* awaited, the PleaseWait written for it carries sequence 2 and the
\* first message's normal response carries sequence 1.
C5_AsClaimed ==
    /\ [][(RejectStep /\ arrivals = 1 /\ lastCall'.outcome = "written")
            => LastWritten' = 2]_vars
    /\ [][(arrivals = 2 /\ FirstInFlight /\ pending' = {}
           /\ lastCall'.type = "Response" /\ lastCall'.outcome = "written")
            => LastWritten' = 1]_vars

\* C5, amended: the PleaseWait for the second message is sent at once and,
\* when written, carries sequence 1; the first message's normal response
\* is sent when its dispatch resolves and, when written, carries 2.
C5_RejectionFirst ==
    /\ [][(RejectStep /\ arrivals = 1 /\ lastCall'.outcome = "written")
            => (lastCall'.type = "PleaseWait" /\ lastCall'.msg = 2
                /\ LastWritten' = 1)]_vars
    /\ [][(arrivals = 2 /\ FirstInFlight /\ pending' = {}
           /\ lastCall'.type = "Response" /\ lastCall'.outcome = "written")
            => (lastCall'.msg = 1 /\ LastWritten' = 2)]_vars

\* C5 witness: both responses were written, the PleaseWait first.
C5_Witness ==
    /\ arrivals = 2
    /\ pending = {}
    /\ written = <<1, 2>>
    /\ lastCall.type = "Response"
    /\ lastCall.msg = 1
    /\ lastCall.outcome = "written"

\* C6: a tick that finds no message ever accepted calls close(): the
\* timer is cleared, and an open socket is closed with code 1000. The
\* first tick after construction is such a tick unless a message came.
C6_SilentKicked ==
    [][(TickStep /\ c.lastRecvTs = Undefined) =>
          /\ CloseStep
          /\ kicks' = kicks + 1
          /\ ~c'.kickTimer
          /\ (c.ws = OPEN =>
                /\ c'.ws = CLOSING
                /\ wsCloseCalls' = Append(wsCloseCalls, NormalClosure))]_vars

\* C6 witness: the first tick has kicked a silent, open session.
C6_Witness ==
    /\ now = TickInterval
    /\ kicks = 1
    /\ arrivals = 0
    /\ c.lastRecvTs = Undefined
    /\ c.ws = CLOSING
    /\ wsCloseCalls = <<NormalClosure>>
    /\ ~c.kickTimer

\* C7: a tick that finds lastRecvTs set closes the session exactly when
\* the time since then is strictly more than the timeout; at the boundary
\* or below it the tick changes nothing but the clock.
C7_KickBoundary ==
    [][(TickStep /\ c.lastRecvTs # Undefined) =>
          IF now' - c.lastRecvTs > Timeout
          THEN /\ CloseStep
               /\ kicks' = kicks + 1
               /\ ~c'.kickTimer
               /\ (c.ws \in {OPEN, CONNECTING} => c'.ws = CLOSING)
          ELSE UNCHANGED <<c, arrivals, pending, written, lastCall,
                           closeCalls, wsCloseCalls, kicks>>]_vars

\* C7 witness: a tick ran exactly at the boundary and the session is
\* still armed and open.
C7_Witness ==
    /\ c.lastRecvTs # Undefined
    /\ now - c.lastRecvTs = Timeout
    /\ c.kickTimer
    /\ c.ws = OPEN
    /\ kicks = 0

\* C8: in every state reached, a second close() right after a first one
\* calls ws.close no more and leaves the container as the first left it;
\* and in every run, once close() has been called, a further close()
\* changes neither the container nor the calls made on the transport.
C8_CloseIdempotent ==
    /\ [](LET once == close(c)
              twice == close(once.c)
          IN  /\ twice.c = once.c
              /\ twice.codes = <<>>
              /\ Len(once.codes) <= 1
              /\ ~once.c.kickTimer)
    /\ [][(closeCalls > 0 /\ CloseStep) =>
            (c' = c /\ wsCloseCalls' = wsCloseCalls)]_vars

\* C8 witness: close() ran twice on a socket that was open, which was
\* closed once.
C8_Witness ==
    /\ closeCalls = 2
    /\ wsCloseCalls = <<NormalClosure>>
    /\ kicks = 0
    /\ ~c.kickTimer

\* C9: close() calls ws.close exactly when the socket is open or
\* connecting, and clears the timer whatever the socket's state; after a
\* close() the timer callback never runs again, so the timer kicks at
\* most once.
C9_CloseCancels ==
    /\ [][CloseStep =>
            /\ (c.ws \in {OPEN, CONNECTING}
                  <=> wsCloseCalls' = Append(wsCloseCalls, NormalClosure))
            /\ (c.ws \notin {OPEN, CONNECTING}
                  <=> (wsCloseCalls' = wsCloseCalls /\ c'.ws = c.ws))
            /\ ~c'.kickTimer]_vars
    /\ [](closeCalls > 0 => ~c.kickTimer)
    /\ [][closeCalls > 0 => ~TickStep]_vars
    /\ [](kicks <= 1)

\* C9 witness: close() found the socket already closed, called ws.close
\* not at all, and cleared the timer.
C9_Witness ==
    /\ closeCalls = 1
    /\ c.ws = CLOSED
    /\ wsCloseCalls = <<>>
    /\ ~c.kickTimer

\* C10: no exception leaves send, whatever fails inside it; and a send on
\* a socket that is not open writes nothing and leaves the container
\* (sequence, gate, lastRecvTs, player) as it was.
C10_SendTotal ==
    /\ [](~escaped)
    /\ [](\A fault \in Faults :
            LET r == send(c, PleaseWait, fault)
            IN  /\ ~r.threw
                /\ (c.ws # OPEN => (r.c = c /\ r.out = <<>>)))
    /\ [][(RejectStep /\ c.ws # OPEN) =>
            (c' = c /\ written' = written /\ lastCall'.outcome = "notOpen")]_vars
    /\ [][c.ws # OPEN =>
            (written' = written /\ c'.sequence = c.sequence)]_vars

\* C10 witness: one send swallowed a failure of the serialiser or of
\* ws.send, and the latest send found the socket not open.
C10_Witness ==
    /\ lastCall.outcome = "notOpen"
    /\ c.sequence > Len(written)
    /\ ~escaped

\* ------------------------------------------------------------------ C11
\* The messages whose execution a step completes.
Completed ==
    IF AcceptStep THEN {arrivals'} ELSE {p.msg : p \in pending \ pending'}

ErrorTypes == {"BadPayload", "BadMessageType", "ServerError"}

FailureCauses ==
    {"parse", "validate", "validateNoErrors", "HandlerNotFoundError", "Error",
     "SyntaxError", "ValidationError", "nonError"}

\* A step that completes an execution which failed at parse, validation
\* or dispatch.
FailedStep == CompleteStep /\ lastCall'.cause \in FailureCauses

\* C11, as claimed: every failed execution of an accepted message puts
\* exactly one response on the wire, never zero and never two.
C11_AsClaimed ==
    [][FailedStep => Len(written') = Len(written) + 1]_vars

\* C11: every execution of an accepted message that fails at parse,
\* validation or dispatch is caught inside processMessage and turned into
\* exactly one call of send with an error response for that message;
\* nothing escapes processMessage.  The call writes exactly one envelope
\* when the socket is open and neither the serialiser nor ws.send fails,
\* and none otherwise.
C11_OneSendPerFailure ==
    /\ [][CompleteStep =>
            /\ sendCalls' = sendCalls + 1
            /\ Completed = {lastCall'.msg}
            /\ ~escaped']_vars
    /\ [][FailedStep =>
            /\ lastCall'.type \in ErrorTypes
            /\ lastCall'.outcome \in {"written", "notOpen", "swallowed"}
            /\ (lastCall'.outcome = "notOpen") = (c.ws # OPEN)
            /\ Len(written') =
                   Len(written) + (IF lastCall'.outcome = "written" THEN 1 ELSE 0)]_vars
    /\ [][(AcceptStep /\ pending' = pending) => FailedStep]_vars

\* A handler's failure answered by one send that found the socket no
\* longer open: nothing was written.
C11_Witness ==
    /\ lastCall.cause = "Error"
    /\ lastCall.type = "ServerError"
    /\ lastCall.outcome = "notOpen"
    /\ sendCalls = 1
    /\ written = <<>>
    /\ ~escaped

\* ------------------------------------------------------------------ C12
\* An accepted message fails before the dispatcher is called.
PayloadFailStep == AcceptStep /\ pending' = pending

IffyPayload == Text("Your JSON payload was a bit iffy. K thx bye.")

\* C12, as claimed: an accepted payload that does not decode is answered
\* with BadPayload carrying the generic notice and no violation list; one
\* that decodes but is rejected by the validator, whatever errors the
\* validator leaves, is answered with BadPayload carrying a non-empty
\* violation list.
C12_AsClaimed ==
    [][PayloadFailStep =>
        /\ lastCall'.type = "BadPayload"
        /\ lastCall'.cause = "parse" => lastCall'.data = IffyPayload
        /\ lastCall'.cause \in {"validate", "validateNoErrors"} =>
              lastCall'.data.isList /\ lastCall'.data.list # <<>>]_vars

\* C12: an accepted payload that does not decode is answered with
\* BadPayload carrying the generic notice and no violation list; one that
\* decodes but is rejected by the validator is answered with BadPayload
\* carrying exactly the list the validator left in its errors (empty when
\* that list is empty) and, when the validator left no errors at all,
\* with ServerError.
C12_PayloadFailures ==
    [][PayloadFailStep =>
        /\ lastCall'.cause \in {"parse", "validate", "validateNoErrors"}
        /\ lastCall'.cause = "parse" =>
              lastCall'.type = "BadPayload" /\ lastCall'.data = IffyPayload
        /\ lastCall'.cause = "validate" =>
              /\ ~validatorErrors'.null
              /\ lastCall'.type = "BadPayload"
              /\ lastCall'.data = List(validatorErrors'.list)
        /\ lastCall'.cause = "validateNoErrors" =>
              /\ validatorErrors'.null
              /\ lastCall'.type = "ServerError"
              /\ ~lastCall'.data.isList]_vars

\* A payload the validator rejected without leaving errors was answered
\* with ServerError.
C12_Witness ==
    /\ lastCall.cause = "validateNoErrors"
    /\ lastCall.type = "ServerError"
    /\ lastCall.outcome = "written"
    /\ validatorErrors.null

\* A payload the validator rejected with an empty list of errors.
C12_EmptyList ==
    /\ lastCall.cause = "validate"
    /\ lastCall.type = "BadPayload"
    /\ lastCall.data = List(<<>>)

\* ------------------------------------------------------------------ C13
\* The promise of an execution settles with a failure.
DispatchFailStep ==
    /\ pending' # pending
    /\ pending' \subseteq pending
    /\ lastCall'.cause \in FailureCauses

\* C13: a dispatch that fails with HandlerNotFoundError is answered with
\* BadMessageType carrying the kind of the message; a dispatch that fails
\* with anything else, of whatever class (a SyntaxError or a
\* ValidationError thrown by a handler included), is answered with
\* ServerError.
C13_DispatchFailures ==
    [][DispatchFailStep =>
        /\ lastCall'.cause = "HandlerNotFoundError" =>
              /\ lastCall'.type = "BadMessageType"
              /\ \E p \in pending \ pending' : lastCall'.data = Text(p.kind)
        /\ lastCall'.cause # "HandlerNotFoundError" =>
              lastCall'.type = "ServerError"]_vars

\* ------------------------------------------------------------------ C14
\* A step of the pipeline: processMessage or its resumption, the timer
\* callback, close.
PipelineStep ==
    \/ arrivals' # arrivals
    \/ pending' # pending
    \/ now' # now
    \/ closeCalls' # closeCalls

\* C14: the player goes from unset to set at most once: a player that has
\* been set is never replaced by another, whatever setPlayer calls and
\* executions follow, and processMessage, send, close and the timer
\* callback never change it.
C14_PlayerSetOnce ==
    /\ [][c.player # NoPlayer => c'.player = c.player]_vars
    /\ [][PipelineStep => c'.player = c.player]_vars

\* ------------------------------------------------------------------ C15
\* C15: the timer and the socket share a lifetime on every exit path
\* (close, a kick by the timer callback, the peer closing the socket): in
\* no reachable state is the socket closed while the timer is still
\* armed, nor the timer cleared while the socket is still open.
C15_SharedLifetime ==
    /\ ~(c.ws = CLOSED /\ c.kickTimer)
    /\ ~(c.ws = OPEN /\ ~c.kickTimer)

\* The half that holds: the timer is never cleared on a socket that is
\* still open.
NoTimerlessOpen == ~(c.ws = OPEN /\ ~c.kickTimer)

\* ------------------------------------------------------------------ C16
\* Some awaited promise settles.
Dispatched ==
    \E p \in pending, fault \in FaultsOf(c) :
       \E settled \in Settlements(p.kind) :
          \E fault2 \in SecondFaults(c, settled, fault) :
             Settle(p, settled, fault, fault2)

\* The promise of an execution settles after close() was called.
SettleAfterClose ==
    /\ ~c.kickTimer
    /\ pending' # pending
    /\ pending' \subseteq pending

\* C16: close(), by the timer callback or any caller, racing an execution
\* in flight is safe: close leaves the execution pending and the gate
\* set, the execution can still settle, and when it does its send on the
\* closed socket writes nothing, raises nothing and takes no sequence
\* number, and the gate is released.
C16_CloseRacing ==
    /\ [][CloseStep => pending' = pending /\ c'.locked = c.locked]_vars
    /\ [](pending # {} => ENABLED Dispatched)
    /\ [][SettleAfterClose =>
            /\ c.ws # OPEN
            /\ written' = written
            /\ c'.sequence = c.sequence
            /\ lastCall'.outcome = "notOpen"
            /\ ~escaped'
            /\ ~c'.locked
            /\ c'.ws = c.ws]_vars

\* The timer callback closed the socket while a handler was running; the
\* handler then resolved and its response went nowhere.
C16_Witness ==
    /\ kicks = 1
    /\ pending = {}
    /\ lastCall.cause = "response"
    /\ lastCall.outcome = "notOpen"
    /\ written = <<>>
    /\ c.sequence = 0
    /\ ~c.locked

\* ------------------------------------------------------------------ C17
GenericServerError == Text("there was an error processing your payload")

\* processMessage sends ServerError.
ServerErrorStep == sendCalls' # sendCalls /\ lastCall'.type = "ServerError"

\* C17: when NODE_ENV is not dev, every ServerError sent is the same
\* generic notice whatever the error was, so two errors that differ in
\* their message only are answered alike; when NODE_ENV is dev, the
\* ServerError for an Error carries that error's message.
C17_NoLeak ==
    /\ [][(ServerErrorStep /\ nodeEnv # "dev") =>
            lastCall'.data = GenericServerError]_vars
    /\ [][(ServerErrorStep /\ nodeEnv = "dev" /\ lastCall'.cause = "Error") =>
            lastCall'.data \in {Text(m) : m \in ErrMessages}]_vars
    /\ [](\A m1, m2 \in ErrMessages :
            /\ classify(Thrown("Error", m1, <<>>, ""), "dev").data = Text(m1)
            /\ \A env \in Envs \ {"dev"} :
                  classify(Thrown("Error", m1, <<>>, ""), env) =
                     classify(Thrown("Error", m2, <<>>, ""), env))

\* A handler failed with an Error outside dev and the client was sent the
\* generic notice.
C17_Witness ==
    /\ nodeEnv = "production"
    /\ lastCall.cause = "Error"
    /\ lastCall.type = "ServerError"
    /\ lastCall.data = GenericServerError
    /\ lastCall.outcome = "written"

\* In dev the client was sent the error's message.
C17_DevEchoes ==
    /\ nodeEnv = "dev"
    /\ lastCall.cause = "Error"
    /\ lastCall.data = Text("db down")
    /\ lastCall.outcome = "written"

\* ------------------------------------------------------------------ C18
\* The program with the promise every execution awaits settling in the
\* end: the dispatcher resolves or fails.
FairSpec == Spec /\ WF_vars(Dispatched)

\* C18: whenever the gate is set it is cleared in the end, given weak
\* fairness of the settling of the awaited promise.
C18_GateCleared == c.locked ~> ~c.locked

\* The gate was cleared after a handler failed with a value that is not
\* an Error, on a socket already closed.
C18_Witness ==
    /\ ~c.locked
    /\ pending = {}
    /\ lastCall.cause = "nonError"
    /\ lastCall.msg = 1
    /\ c.ws = CLOSED

\* ------------------------------------------------------------------ C19
\* C19: lastRecvTs is written only when a message passes the gate, and
\* then before the message is parsed, so by malformed and invalid
\* messages too; once set it never decreases; a message rejected at the
\* gate leaves lastRecvTs and the gate as they were.
C19_ActivityStamp ==
    /\ [][AcceptStep => c'.lastRecvTs = now]_vars
    /\ [][c'.lastRecvTs # c.lastRecvTs => AcceptStep]_vars
    /\ [][c.lastRecvTs # Undefined => c'.lastRecvTs >= c.lastRecvTs]_vars
    /\ [][RejectStep => c'.lastRecvTs = c.lastRecvTs /\ c'.locked = c.locked]_vars

\* A malformed second message refreshed the timestamp.
C19_Witness ==
    /\ c.lastRecvTs = 2
    /\ now = 2
    /\ lastCall.cause = "parse"
    /\ lastCall.msg = 2

\* A message was rejected at the gate after time had passed since the
\* accepted one.
C19_RejectedLater ==
    /\ lastCall.cause = "gate"
    /\ c.lastRecvTs = 0
    /\ now = 2
    /\ c.locked

\* ------------------------------------------------------------------ C20
\* This session's messages, interleaved at every suspension point with
\* validations run for other sessions on the shared validator.
NextShared ==
    \/ \E data \in Data :
          \E verrs \in ErrorsOf(data), fault \in FaultsOf(c) :
             ProcessMessage(data, verrs, fault)
    \/ Dispatched
    \/ \E verrs \in OtherErrors : OtherSession(verrs)

SharedSpec == Init /\ [][NextShared]_vars

OtherSessionStep == validatorErrors' # validatorErrors /\ arrivals' = arrivals

\* C20: sessions do not interfere through the shared validator: the list
\* in a session's BadPayload is the list the validator produced for that
\* session's own message, never one left by another session's
\* validation, the call of the validator and the read of its errors
\* being one step; and another session's validation changes nothing of
\* this session.
C20_NoInterference ==
    /\ [][(PayloadFailStep /\ lastCall'.cause = "validate") =>
            /\ validatorErrors' \in ValidatorErrors
            /\ lastCall'.data = List(validatorErrors'.list)]_vars
    /\ [](\A o \in OtherErrors : ~o.null => lastCall.data # List(o.list))
    /\ [][OtherSessionStep =>
            UNCHANGED <<c, pending, written, lastCall, sendCalls, escaped>>]_vars

\* This session's BadPayload carried its own list although another
\* session's errors were in the slot before its validation; and another
\* session's validation has overwritten the slot since.
C20_Witness ==
    /\ lastCall.cause = "validate"
    /\ lastCall.msg = 2
    /\ lastCall.data = List(<<"violation">>)
    /\ lastCall.outcome = "written"
    /\ \E o \in OtherErrors : ~o.null /\ validatorErrors = o

====
